---- MODULE Spec2Model ----
(***************************************************************************)
(* A model of the runtime surface of typescript-json (src/src/module.ts):  *)
(* the untransformed entry points, assertType.predicate,                   *)
(* validate.predicate with its error accumulator, stringify.throws, and    *)
(* the JSON schema application whose expected outputs the tests under      *)
(* src/test/features/application fix.                                      *)
(***************************************************************************)
EXTENDS Integers, Sequences, FiniteSets, TLC

VARIABLES
    call,       \* the operation invoked last and its arguments
    outcome,    \* how that invocation ended: returned value or thrown error
    res,        \* the IValidation accumulator handed to validate.predicate
    prev,       \* res as it was before the last invocation
    trials,     \* consecutive speculative failures just before the last call
    sites,      \* the check sites one assertType call evaluates, in order
    pc,         \* index of the next check site of the assertType call
    app,        \* the IJsonApplication a transformed application() yields
    resOf,      \* the accumulator of each of two validations in progress
    plan,       \* the predicate calls each of the two validations makes
    made        \* how many of its calls each of the two has made

vars ==
    <<call, outcome, res, prev, trials, sites, pc, app, resOf, plan, made>>

----------------------------------------------------------------------------
(* Bounds of the model.                                                    *)

MaxErrors == 3
MaxTrials == 2
MaxSites == 3
MaxArgs == 2
MaxTypes == 2
MaxCalls == 2

----------------------------------------------------------------------------
(* Values the generated checks report on.                                  *)

\* Access paths from the root; "$input.name" is a leading substring of the
\* sibling "$input.name2", and the parent of "$input.name.id".
Paths ==
    { "$input", "$input.name", "$input.name2", "$input.name.id",
      "$input.name2.id" }

Expecteds == { "string", "number" }

\* IValidation.IError, the record a closure returns.
IError == [ path : Paths, expected : Expecteds, value : { "v" } ]

NoCall == [ op |-> "none" ]
NoOutcome == [ kind |-> "none" ]

\* IValidation as the transformed validate() creates it.
EmptyValidation == [ success |-> TRUE, errors |-> << >> ]

\* The parts of the state an operation of another area leaves alone.
IdleValidate == res = EmptyValidation /\ prev = EmptyValidation /\ trials = 0
IdleAssert == sites = << >> /\ pc = 0
IdleApplication == app = [ schemas |-> << >> ]
IdleInterleave == resOf = << >> /\ plan = << >> /\ made = << >>

----------------------------------------------------------------------------
(* Untransformed entry points                                              *)

\* An argument list of a call: the stubs take any arguments.
Values == { "undefined", "null", "text", "object" }
ArgLists == UNION { [ 1..n -> Values ] : n \in 0..MaxArgs }

\* new Error(message)
Error(message) == [ name |-> "Error", message |-> message ]

halt_Returns(name) == [ kind |-> "return", value |-> "undefined" ]
\* halt(name): never returns.
halt(name) ==
    [ kind |-> "throw",
      error |-> Error("Error on TSON." \o name
                      \o "(): no transform has been configured. "
                      \o "Configure the \"tsconfig.json\" file following the "
                      \o "[README.md#setup](https://github.com/samchon/typescript-json#setup)") ]

Stub(name, args) ==
    /\ call' = [ op |-> name, args |-> args ]
    /\ outcome' = halt(name)
    /\ UNCHANGED << res, prev, trials, sites, pc, app, resOf, plan, made >>

assertType == \E args \in ArgLists : Stub("assertType", args)
is == \E args \in ArgLists : Stub("is", args)
validate == \E args \in ArgLists : Stub("validate", args)
stringify == \E args \in ArgLists : Stub("stringify", args)
create == \E args \in ArgLists : Stub("create", args)
application == \E args \in ArgLists : Stub("application", args)

----------------------------------------------------------------------------
(* TypeGuardError and the operations that throw it                         *)

\* TypeGuardError.IProps without its method.
IProps ==
    [ path : { "$input", "$input.name", "$input.name2" },
      expected : { "string" }, value : { "v" } ]

\* What stringify.throws is given: Pick<IProps, "expected" | "value">.
ThrowsProps == [ expected : Expecteds, value : Values ]

\* new TypeGuardError(props): the error object keeps the properties.
TypeGuardError(props) ==
    [ name |-> "TypeGuardError",
      method |-> props.method,
      path |-> IF "path" \in DOMAIN props THEN props.path ELSE "undefined",
      expected |-> props.expected,
      value |-> props.value ]

assertType_predicate_AnyFailure(matched, exceptionable, props) ==
    IF matched = FALSE
    THEN [ kind |-> "throw",
           error |-> TypeGuardError(props @@ [ method |-> "TSON.assertType" ]) ]
    ELSE [ kind |-> "return", value |-> matched ]

\* assertType.predicate(matched, exceptionable, closure); a later property
\* of the object literal { method, ...closure() } replaces an earlier one.
assertType_predicate(matched, exceptionable, props) ==
    IF matched = FALSE /\ exceptionable = TRUE
    THEN [ kind |-> "throw",
           error |-> TypeGuardError(props @@ [ method |-> "TSON.assertType" ]) ]
    ELSE [ kind |-> "return", value |-> matched ]

stringify_throws_AssertMethod(props) ==
    [ kind |-> "throw",
      error |-> TypeGuardError([ method |-> "TSON.assertType" ] @@ props) ]

\* stringify.throws(props): { ...props, method: "TSON.stringify" }.
stringify_throws(props) ==
    [ kind |-> "throw",
      error |-> TypeGuardError([ method |-> "TSON.stringify" ] @@ props) ]

StringifyThrows ==
    \E props \in ThrowsProps :
        /\ call' = [ op |-> "stringify.throws", props |-> props ]
        /\ outcome' = stringify_throws(props)
        /\ UNCHANGED << res, prev, trials, sites, pc, app, resOf, plan, made >>

----------------------------------------------------------------------------
(* Specification of the surface a caller reaches without the generated     *)
(* checks: the entry points and stringify.throws.                          *)

Init ==
    /\ call = NoCall
    /\ outcome = NoOutcome
    /\ IdleValidate
    /\ IdleAssert
    /\ IdleApplication
    /\ IdleInterleave

Next ==
    \/ assertType
    \/ is
    \/ validate
    \/ stringify
    \/ create
    \/ application
    \/ StringifyThrows

Spec == Init /\ [][Next]_vars

----------------------------------------------------------------------------
(* Specification of one assertType call: its check sites are evaluated in  *)
(* order until one throws.                                                 *)

Site == [ matched : BOOLEAN, exceptionable : BOOLEAN, props : IProps ]

InitAssert ==
    /\ call = NoCall
    /\ outcome = NoOutcome
    /\ IdleValidate
    /\ IdleApplication
    /\ IdleInterleave
    /\ sites \in UNION { [ 1..n -> Site ] : n \in 1..MaxSites }
    /\ pc = 1

AssertPredicate ==
    /\ pc \in 1..Len(sites)
    /\ outcome.kind # "throw"
    /\ LET site == sites[pc]
           out == assertType_predicate(site.matched, site.exceptionable,
                                       site.props)
       IN  /\ call' = [ op |-> "assertType.predicate", index |-> pc,
                        matched |-> site.matched,
                        exceptionable |-> site.exceptionable,
                        props |-> site.props ]
           /\ outcome' = out
           /\ pc' = IF out.kind = "throw" THEN pc ELSE pc + 1
    /\ UNCHANGED << res, prev, trials, sites, app, resOf, plan, made >>

NextAssert == AssertPredicate

SpecAssert == InitAssert /\ [][NextAssert]_vars

----------------------------------------------------------------------------
(* validate.predicate                                                      *)

Covered_Strict(last, path) ==
    /\ Len(last) > Len(path)
    /\ SubSeq(last, 1, Len(path)) = path

Covered_Reversed(last, path) ==
    /\ Len(path) >= Len(last)
    /\ SubSeq(path, 1, Len(last)) = last

\* last.length >= error.path.length &&
\* last.substring(0, error.path.length) === error.path
Covered(last, path) ==
    /\ Len(last) >= Len(path)
    /\ SubSeq(last, 1, Len(path)) = path

Trace_KeepSuccess(r, error) ==
    IF /\ Len(r.errors) # 0
       /\ Covered(r.errors[Len(r.errors)].path, error.path)
    THEN r
    ELSE [ r EXCEPT !.errors = Append(r.errors, error) ]

\* The body run on a failure: res.success &&= false, then the trace step.
Trace(r, error) ==
    LET failed == [ r EXCEPT !.success = r.success /\ FALSE ]
    IN  IF /\ Len(failed.errors) # 0
           /\ Covered(failed.errors[Len(failed.errors)].path, error.path)
        THEN failed
        ELSE [ failed EXCEPT !.errors = Append(failed.errors, error) ]

validate_predicate_AnyFailure(r, matched, exceptionable, error) ==
    [ res |-> IF matched = FALSE THEN Trace(r, error) ELSE r,
      ret |-> matched ]

\* validate.predicate(res)(matched, exceptionable, closure): the accumulator
\* afterwards and the value returned.
validate_predicate(r, matched, exceptionable, error) ==
    [ res |-> IF matched = FALSE /\ exceptionable = TRUE
              THEN Trace(r, error)
              ELSE r,
      ret |-> matched ]

----------------------------------------------------------------------------
(* Specification of one validation: any sequence of predicate calls on one *)
(* accumulator.                                                            *)

InitValidate ==
    /\ call = NoCall
    /\ outcome = NoOutcome
    /\ IdleValidate
    /\ IdleAssert
    /\ IdleApplication
    /\ IdleInterleave

ValidatePredicate ==
    \E matched \in BOOLEAN, exceptionable \in BOOLEAN, error \in IError :
        LET out == validate_predicate(res, matched, exceptionable, error)
            speculative == matched = FALSE /\ exceptionable = FALSE
        IN  /\ Len(out.res.errors) <= MaxErrors
            /\ speculative => trials < MaxTrials
            /\ call' = [ op |-> "validate.predicate", matched |-> matched,
                         exceptionable |-> exceptionable, error |-> error,
                         trials |-> trials ]
            /\ outcome' = [ kind |-> "return", value |-> out.ret ]
            /\ prev' = res
            /\ res' = out.res
            /\ trials' = IF speculative THEN trials + 1 ELSE 0
            /\ UNCHANGED << sites, pc, app, resOf, plan, made >>

NextValidate == ValidatePredicate

SpecValidate == InitValidate /\ [][NextValidate]_vars

----------------------------------------------------------------------------
(* Specification of two validations in progress at once: each made its own *)
(* accumulator and its own predicate, validate.predicate(res1) and         *)
(* validate.predicate(res2), and their calls interleave in any order.      *)

Validations == { 1, 2 }

\* The calls a validation may make: failures at three paths, a speculative
\* failure and a success.
PlanCalls ==
    { [ matched |-> FALSE, exceptionable |-> TRUE,
        error |-> [ path |-> p, expected |-> "string", value |-> "v" ] ] :
          p \in { "$input.name2", "$input.name", "$input.name.id" } }
    \cup
    { [ matched |-> m, exceptionable |-> m,
        error |-> [ path |-> "$input", expected |-> "number", value |-> "v" ] ] :
          m \in BOOLEAN }

Plans == UNION { [ 1..n -> PlanCalls ] : n \in 0..MaxCalls }

predicate_Shared(rs, v, matched, exceptionable, error) ==
    [ w \in DOMAIN rs |->
        validate_predicate(rs[v], matched, exceptionable, error).res ]

\* The function validate.predicate(res) returns closes over the res it was
\* given: a call of the predicate of validation v reads and writes that
\* accumulator alone.
predicate(rs, v, matched, exceptionable, error) ==
    [ rs EXCEPT ![v] =
        validate_predicate(rs[v], matched, exceptionable, error).res ]

InitInterleave ==
    /\ call = NoCall
    /\ outcome = NoOutcome
    /\ IdleValidate
    /\ IdleAssert
    /\ IdleApplication
    /\ resOf = [ v \in Validations |-> EmptyValidation ]
    /\ plan \in [ Validations -> Plans ]
    /\ made = [ v \in Validations |-> 0 ]

InterleavedPredicate ==
    \E v \in Validations :
        /\ made[v] < Len(plan[v])
        /\ LET c == plan[v][made[v] + 1]
           IN  /\ resOf' = predicate(resOf, v, c.matched, c.exceptionable,
                                     c.error)
               /\ call' = [ op |-> "validate.predicate", validation |-> v,
                            matched |-> c.matched,
                            exceptionable |-> c.exceptionable,
                            error |-> c.error ]
               /\ outcome' = [ kind |-> "return", value |-> c.matched ]
        /\ made' = [ made EXCEPT ![v] = made[v] + 1 ]
        /\ UNCHANGED << res, prev, trials, sites, pc, app, plan >>

NextInterleave == InterleavedPredicate

SpecInterleave == InitInterleave /\ [][NextInterleave]_vars

----------------------------------------------------------------------------
(* Type descriptions handed to application<Types, Purpose, Prefix>()       *)

Primitive(type, nullable) ==
    [ kind |-> "primitive", type |-> type, nullable |-> nullable,
      enum |-> << >> ]
Literals(type, values, nullable) ==
    [ kind |-> "primitive", type |-> type, nullable |-> nullable,
      enum |-> values ]
Unknown == [ kind |-> "unknown" ]
ArrayOf(element) ==
    [ kind |-> "array", element |-> element, nullable |-> FALSE ]
UnionOf(alternatives) == [ kind |-> "union", alternatives |-> alternatives ]
Property(name, type, required) ==
    [ name |-> name, type |-> type, required |-> required ]
\* An object shape; its name is "" when the shape is anonymous.
ObjectOf(name, properties) ==
    [ kind |-> "object", name |-> name, properties |-> properties ]
IntersectionOf(name, members) ==
    [ kind |-> "intersection", name |-> name, members |-> members ]
Reference(name) == [ kind |-> "reference", name |-> name ]

String == Primitive("string", FALSE)
Number == Primitive("number", FALSE)
Boolean == Primitive("boolean", FALSE)

\* The structures the application tests pass as Types.
ObjectPrimitive ==
    ObjectOf("", <<
        Property("id", String, TRUE),
        Property("extension",
                 Literals("string", << "txt", "md", "html" >>, FALSE), TRUE),
        Property("title", String, TRUE),
        Property("body", String, TRUE),
        Property("files",
                 ArrayOf(ObjectOf("", <<
                     Property("id", String, TRUE),
                     Property("name", String, TRUE),
                     Property("extension", String, TRUE),
                     Property("url", String, TRUE),
                     Property("created_at", String, TRUE) >>)), TRUE),
        Property("secret", Boolean, TRUE),
        Property("created_at", String, TRUE) >>)

ArrayUnion ==
    ArrayOf(UnionOf(<< ArrayOf(String), ArrayOf(Boolean), ArrayOf(Number) >>))

ObjectIntersection ==
    IntersectionOf("ObjectIntersection", <<
        ObjectOf("ObjectIntersection.IEmail",
                 << Property("email", String, TRUE) >>),
        ObjectOf("ObjectIntersection.IName",
                 << Property("name", String, TRUE) >>),
        ObjectOf("ObjectIntersection.IVulnerable",
                 << Property("vulnerable", Boolean, TRUE) >>) >>)

ObjectClosure ==
    ObjectOf("ObjectClosure.IRecord", <<
        Property("id", String, TRUE),
        Property("open", Unknown, TRUE) >>)

ObjectAlias ==
    ArrayOf(ObjectOf("ObjectAlias.IMember", <<
        Property("id", Primitive("string", TRUE), TRUE),
        Property("email", String, TRUE),
        Property("name", String, TRUE),
        Property("sex",
                 UnionOf(<< Literals("number", << "2", "1" >>, TRUE),
                            Literals("string", << "male", "female" >>, TRUE) >>),
                 TRUE),
        Property("age", Primitive("number", TRUE), TRUE),
        Property("dead", Primitive("boolean", TRUE), TRUE) >>))

\* Shapes no test covers: optional properties, an anonymous shape nested
\* under a named one, a self-referential shape, an intersection with an
\* optional member property.
ObjectOptional ==
    ObjectOf("ObjectOptional", <<
        Property("id", String, TRUE),
        Property("note", String, FALSE),
        Property("open", Unknown, FALSE),
        Property("detail",
                 ObjectOf("", << Property("text", String, FALSE),
                                 Property("size", Number, TRUE) >>), TRUE) >>)

ObjectRecursive ==
    ObjectOf("ObjectRecursive", <<
        Property("value", Number, TRUE),
        Property("parent", Reference("ObjectRecursive"), FALSE),
        Property("children", ArrayOf(Reference("ObjectRecursive")), TRUE) >>)

ObjectPartial ==
    IntersectionOf("ObjectPartial", <<
        ObjectOf("ObjectPartial.IBase",
                 << Property("id", String, TRUE),
                    Property("open", Unknown, FALSE) >>),
        ObjectOf("ObjectPartial.IExtra",
                 << Property("tag", String, FALSE),
                    Property("count", Number, TRUE) >>) >>)

TestedTypes ==
    { ObjectPrimitive, ArrayUnion, ObjectIntersection, ObjectClosure,
      ObjectAlias }

Types == TestedTypes \cup { ObjectOptional, ObjectRecursive, ObjectPartial,
                            String }

TypeLists == UNION { [ 1..n -> Types ] : n \in 0..MaxTypes }

Purposes == { "swagger", "ajv" }

\* Prefix defaults to "#/components/schemas" for swagger and to
\* "components#/schemas" for ajv.
DefaultPrefix(purpose) ==
    IF purpose = "swagger" THEN "#/components/schemas"
    ELSE "components#/schemas"

----------------------------------------------------------------------------
(* Outputs the application tests expect, under purpose "swagger".  An      *)
(* object with ordered keys is a sequence of [key, schema] entries; a      *)
(* schema is a record of the keys it carries, {} the empty one.            *)

Entry(key, schema) == [ key |-> key, schema |-> schema ]
Plain(type, nullable) == [ type |-> type, nullable |-> nullable ]
RefTo(prefix, name) == "$ref" :> (prefix \o "/" \o name)
ObjectSchema(properties, required) ==
    [ type |-> "object", properties |-> properties, nullable |-> FALSE,
      required |-> required, jsDocTags |-> << >> ]
Swagger(schemas, components) ==
    [ schemas |-> schemas, components |-> [ schemas |-> components ],
      purpose |-> "swagger", prefix |-> "#/components/schemas" ]

ObjectPrimitive_files_Dangling ==
    [ type |-> "array",
      items |-> "$ref" :> "#/components/schemas/__type.o2",
      nullable |-> FALSE ]

ObjectPrimitive_files ==
    [ type |-> "array",
      items |-> "$ref" :> "#/components/schemas/__type.o1",
      nullable |-> FALSE ]

test_application_object_primitive ==
    Swagger(
        << "$ref" :> "#/components/schemas/__type" >>,
        << Entry("__type", ObjectSchema(
               << Entry("id", Plain("string", FALSE)),
                  Entry("extension",
                        [ type |-> "string", enum |-> << "txt", "md", "html" >>,
                          nullable |-> FALSE ]),
                  Entry("title", Plain("string", FALSE)),
                  Entry("body", Plain("string", FALSE)),
                  Entry("files", ObjectPrimitive_files),
                  Entry("secret", Plain("boolean", FALSE)),
                  Entry("created_at", Plain("string", FALSE)) >>,
               << "id", "extension", "title", "body", "files", "secret",
                  "created_at" >>)),
           Entry("__type.o1", ObjectSchema(
               << Entry("id", Plain("string", FALSE)),
                  Entry("name", Plain("string", FALSE)),
                  Entry("extension", Plain("string", FALSE)),
                  Entry("url", Plain("string", FALSE)),
                  Entry("created_at", Plain("string", FALSE)) >>,
               << "id", "name", "extension", "url", "created_at" >>)) >>)

test_application_array_union ==
    Swagger(
        << [ type |-> "array",
             items |-> [ oneOf |-> <<
                 [ type |-> "array", items |-> Plain("string", FALSE),
                   nullable |-> FALSE ],
                 [ type |-> "array", items |-> Plain("boolean", FALSE),
                   nullable |-> FALSE ],
                 [ type |-> "array", items |-> Plain("number", FALSE),
                   nullable |-> FALSE ] >> ],
             nullable |-> FALSE ] >>,
        << >>)

test_application_object_intersection ==
    Swagger(
        << "$ref" :> "#/components/schemas/ObjectIntersection" >>,
        << Entry("ObjectIntersection", ObjectSchema(
               << Entry("email", Plain("string", FALSE)),
                  Entry("name", Plain("string", FALSE)),
                  Entry("vulnerable", Plain("boolean", FALSE)) >>,
               << "email", "name", "vulnerable" >>)) >>)

ObjectClosure_required_Constrained == << "id" >>

ObjectClosure_required == << "id", "open" >>

test_application_object_closure ==
    Swagger(
        << "$ref" :> "#/components/schemas/ObjectClosure.IRecord" >>,
        << Entry("ObjectClosure.IRecord", ObjectSchema(
               << Entry("id", Plain("string", FALSE)),
                  Entry("open", << >>) >>,
               ObjectClosure_required)) >>)

test_application_object_alias ==
    Swagger(
        << [ type |-> "array",
             items |-> "$ref" :> "#/components/schemas/ObjectAlias.IMember",
             nullable |-> FALSE ] >>,
        << Entry("ObjectAlias.IMember", ObjectSchema(
               << Entry("id", Plain("string", TRUE)),
                  Entry("email", Plain("string", FALSE)),
                  Entry("name", Plain("string", FALSE)),
                  Entry("sex", [ oneOf |-> <<
                      [ type |-> "number", enum |-> << "2", "1" >>,
                        nullable |-> TRUE ],
                      [ type |-> "string", enum |-> << "male", "female" >>,
                        nullable |-> TRUE ] >> ]),
                  Entry("age", Plain("number", TRUE)),
                  Entry("dead", Plain("boolean", TRUE)) >>,
               << "id", "email", "name", "sex", "age", "dead" >>)) >>)

\* What each test expects of application<[T]>().
Expected(type) ==
    CASE type = ObjectPrimitive -> test_application_object_primitive
      [] type = ArrayUnion -> test_application_array_union
      [] type = ObjectIntersection -> test_application_object_intersection
      [] type = ObjectClosure -> test_application_object_closure
      [] type = ObjectAlias -> test_application_object_alias

----------------------------------------------------------------------------
(* The schema compiler behind a transformed application()                  *)

RECURSIVE Flatten(_)
Flatten(lists) ==
    IF lists = << >> THEN << >> ELSE Head(lists) \o Flatten(Tail(lists))

\* An intersection of object shapes is one flat shape with the properties
\* of all members.
Merge(type) ==
    ObjectOf(type.name,
             Flatten([ i \in 1..Len(type.members) |->
                         type.members[i].properties ]))

\* The names of the properties that are not optional, in declaration order.
Required(properties) ==
    LET kept == SelectSeq([ i \in 1..Len(properties) |-> i ],
                          LAMBDA i : properties[i].required)
    IN  [ k \in 1..Len(kept) |-> properties[kept[k]].name ]

\* The visited entry that holds this shape, 0 when there is none.
Find(visited, type) ==
    LET hits == { i \in 1..Len(visited) : visited[i].type = type }
    IN  IF hits = {} THEN 0 ELSE CHOOSE i \in hits : TRUE

\* A named shape keeps its name; an anonymous one is "__type" at the top
\* and "<container>.o<N>" below a container.
NameOf(type, container, visited) ==
    IF type.name # "" THEN type.name
    ELSE IF container = "" THEN "__type"
    ELSE container \o ".o"
         \o ToString(1 + Cardinality({ i \in 1..Len(visited) :
                                         /\ visited[i].container = container
                                         /\ visited[i].type.name = "" }))

RECURSIVE Lower(_, _, _, _), LowerEach(_, _, _, _), LowerObject(_, _, _, _)

\* An object shape is lowered once, stored in the components under its name,
\* and referenced by "$ref" wherever it occurs.
LowerObject(type, container, st, prefix) ==
    LET found == Find(st.visited, type)
    IN  IF found # 0
        THEN [ schema |-> RefTo(prefix, st.visited[found].name), st |-> st ]
        ELSE
          LET name == NameOf(type, container, st.visited)
              slot == Len(st.components) + 1
              entered ==
                  [ components |-> Append(st.components, Entry(name, << >>)),
                    visited |-> Append(st.visited,
                                       [ name |-> name, container |-> container,
                                         type |-> type ]) ]
              props == type.properties
              r == LowerEach([ i \in 1..Len(props) |-> props[i].type ],
                             name, entered, prefix)
              fragment ==
                  ObjectSchema([ i \in 1..Len(props) |->
                                   Entry(props[i].name, r.schemas[i]) ],
                               Required(props))
          IN  [ schema |-> RefTo(prefix, name),
                st |-> [ r.st EXCEPT !.components[slot].schema = fragment ] ]

Lower(type, container, st, prefix) ==
    CASE type.kind = "primitive" ->
           [ schema |-> IF Len(type.enum) = 0
                        THEN Plain(type.type, type.nullable)
                        ELSE [ type |-> type.type, enum |-> type.enum,
                               nullable |-> type.nullable ],
             st |-> st ]
      [] type.kind = "unknown" -> [ schema |-> << >>, st |-> st ]
      [] type.kind = "array" ->
           LET r == Lower(type.element, container, st, prefix)
           IN  [ schema |-> [ type |-> "array", items |-> r.schema,
                              nullable |-> type.nullable ],
                 st |-> r.st ]
      [] type.kind = "union" ->
           LET r == LowerEach(type.alternatives, container, st, prefix)
           IN  [ schema |-> [ oneOf |-> r.schemas ], st |-> r.st ]
      [] type.kind = "reference" ->
           [ schema |-> RefTo(prefix, type.name), st |-> st ]
      [] type.kind = "intersection" ->
           LowerObject(Merge(type), container, st, prefix)
      [] type.kind = "object" -> LowerObject(type, container, st, prefix)

LowerEach(types, container, st, prefix) ==
    IF types = << >> THEN [ schemas |-> << >>, st |-> st ]
    ELSE LET first == Lower(Head(types), container, st, prefix)
             rest == LowerEach(Tail(types), container, first.st, prefix)
         IN  [ schemas |-> << first.schema >> \o rest.schemas, st |-> rest.st ]

\* One fragment per requested type, in request order, over one registry.
Compile(types, purpose, prefix) ==
    LET r == LowerEach(types, "", [ components |-> << >>, visited |-> << >> ],
                       prefix)
    IN  [ schemas |-> r.schemas,
          components |-> [ schemas |-> r.st.components ],
          purpose |-> purpose, prefix |-> prefix ]

\* application<Types, Purpose>() after the transform: what the tests fix for
\* the types they cover, and the compiler's output for the others.
application_result(types, purpose) ==
    IF purpose = "swagger" /\ Len(types) = 1 /\ types[1] \in TestedTypes
    THEN Expected(types[1])
    ELSE Compile(types, purpose, DefaultPrefix(purpose))

----------------------------------------------------------------------------
(* Specification of one call of the transformed application().             *)

\* The type list and the purpose of the call are its generic arguments.
InitApplication ==
    /\ call \in [ op : { "request" }, types : TypeLists, purpose : Purposes ]
    /\ outcome = NoOutcome
    /\ IdleValidate
    /\ IdleAssert
    /\ IdleApplication
    /\ IdleInterleave

Application ==
    /\ call.op = "request"
    /\ call' = [ call EXCEPT !.op = "application<>" ]
    /\ outcome' = [ kind |-> "return" ]
    /\ app' = application_result(call.types, call.purpose)
    /\ UNCHANGED << res, prev, trials, sites, pc, resOf, plan, made >>

NextApplication == Application

SpecApplication == InitApplication /\ [][NextApplication]_vars

\* The compiler reproduces every output the tests expect.
CompileAgreesWithTests ==
    \A type \in TestedTypes :
        Compile(<< type >>, "swagger", DefaultPrefix("swagger")) = Expected(type)

----------------------------------------------------------------------------
(* Properties of validate.predicate, stated over the last call.            *)

\* p is q or a leading substring of q, as texts.
IsLeadingSubstring(p, q) == \E n \in 0..Len(q) : SubSeq(q, 1, n) = p

\* p is q or an ancestor of q over path segments: q continues p with a
\* property accessor or an index accessor.
IsAncestorOrSelf(p, q) ==
    \/ p = q
    \/ /\ Len(q) > Len(p)
       /\ SubSeq(q, 1, Len(p)) = p
       /\ SubSeq(q, Len(p) + 1, Len(p) + 1) \in { ".", "[" }

FailingCall ==
    /\ call.op = "validate.predicate"
    /\ call.matched = FALSE
    /\ call.exceptionable = TRUE

LastPath(r) == r.errors[Len(r.errors)].path

Appended == res.errors = Append(prev.errors, call.error)
Dropped == res.errors = prev.errors

C4_SuccessIffNoErrors == res.success <=> (res.errors = << >>)

\* A failure that is recorded, followed by a failure that is dropped.
C4_Witness ==
    /\ FailingCall
    /\ Len(prev.errors) > 0
    /\ Dropped
    /\ ~res.success

\* C5 as stated: after one or more speculative failures, the failing
\* exceptionable call of the union site adds exactly one record, at its path,
\* whatever was recorded before the site was reached: the errors recorded by
\* then lie outside the union's own path and what is below it.
C5_UnionAddsOneRecord ==
    ( /\ FailingCall
      /\ call.trials >= 1
      /\ \/ prev.errors = << >>
         \/ ~IsAncestorOrSelf(call.error.path, LastPath(prev)) )
    => Appended

\* C9: a call with exceptionable = false, or with matched = true, leaves the
\* accumulator as it was and returns matched.
C9_SpeculativeRecordsNothing ==
    ( /\ call.op = "validate.predicate"
      /\ (call.exceptionable = FALSE \/ call.matched = TRUE) )
    => /\ res = prev
       /\ outcome = [ kind |-> "return", value |-> call.matched ]

\* A speculative failure on an accumulator that already holds errors.
C9_Witness ==
    /\ call.op = "validate.predicate"
    /\ call.matched = FALSE
    /\ call.exceptionable = FALSE
    /\ Len(prev.errors) > 0
    /\ res = prev

\* C10 as stated: a failing exceptionable call whose path is neither equal
\* to, nor an ancestor of, nor a descendant of the last recorded path, over
\* path segments, appends its record.
C10_UnrelatedAppended ==
    ( /\ FailingCall
      /\ Len(prev.errors) > 0
      /\ ~IsAncestorOrSelf(call.error.path, LastPath(prev))
      /\ ~IsAncestorOrSelf(LastPath(prev), call.error.path) )
    => Appended

----------------------------------------------------------------------------
(* Properties of the entry points, assertType.predicate and the stringify  *)
(* surface.                                                                *)

EntryPoints ==
    { "assertType", "is", "validate", "stringify", "create", "application" }

HaltMessage(name) ==
    "Error on TSON." \o name \o "(): no transform has been configured. "
    \o "Configure the \"tsconfig.json\" file following the "
    \o "[README.md#setup](https://github.com/samchon/typescript-json#setup)"

\* C1: an entry point invoked without the transformer throws an Error whose
\* message names that entry point, returns nothing, and leaves no validation
\* result behind, whatever its arguments.
C1_EntryPointsHalt ==
    call.op \in EntryPoints
    => /\ outcome.kind = "throw"
       /\ outcome.error = [ name |-> "Error", message |-> HaltMessage(call.op) ]
       /\ res = EmptyValidation
       /\ app = [ schemas |-> << >> ]

\* application() called with two arguments has thrown.
C1_Witness ==
    /\ call.op = "application"
    /\ Len(call.args) = 2
    /\ outcome.kind = "throw"

\* C2: assertType.predicate throws a TypeGuardError of method
\* "TSON.assertType" carrying the closure's path, expected and value exactly
\* when matched is false and exceptionable is true, and returns matched
\* otherwise; the check sites of one call are evaluated up to the first one
\* that fails with exceptionable = true, and the error thrown describes it.
C2_AssertThrowsOnFirstFatal ==
    call.op = "assertType.predicate"
    => LET fatal == { i \in 1..Len(sites) :
                        /\ sites[i].matched = FALSE
                        /\ sites[i].exceptionable = TRUE }
           site == sites[call.index]
       IN  /\ outcome.kind = "throw" <=> call.index \in fatal
           /\ outcome.kind = "throw"
              => /\ outcome.error =
                        [ name |-> "TypeGuardError",
                          method |-> "TSON.assertType",
                          path |-> site.props.path,
                          expected |-> site.props.expected,
                          value |-> site.props.value ]
                 /\ pc = call.index
           /\ outcome.kind # "throw"
              => /\ outcome = [ kind |-> "return", value |-> site.matched ]
                 /\ pc = call.index + 1
           /\ \A i \in fatal : call.index <= i

\* The second of three sites throws: the first failed without being
\* exceptionable, the third would have failed too, at another path.
C2_Witness ==
    /\ call.op = "assertType.predicate"
    /\ Len(sites) = 3
    /\ sites[1].matched = FALSE /\ sites[1].exceptionable = FALSE
    /\ sites[2].matched = FALSE /\ sites[2].exceptionable = TRUE
    /\ sites[3].matched = FALSE /\ sites[3].exceptionable = TRUE
    /\ sites[3].props.path # sites[2].props.path
    /\ outcome.kind = "throw"
    /\ pc = 2

StringifySurface == { "stringify", "stringify.throws" }

----------------------------------------------------------------------------
(* Properties of a schema application.                                     *)

Components == app.components.schemas
ComponentKeys == { Components[i].key : i \in 1..Len(Components) }
Applied == call.op = "application<>"

\* Every "$ref" value in a schema.
RECURSIVE Refs(_)
Refs(schema) ==
    LET keys == DOMAIN schema
    IN  (IF "$ref" \in keys THEN { schema["$ref"] } ELSE {})
        \cup (IF "items" \in keys THEN Refs(schema.items) ELSE {})
        \cup (IF "oneOf" \in keys
              THEN UNION { Refs(schema.oneOf[i]) : i \in 1..Len(schema.oneOf) }
              ELSE {})
        \cup (IF "properties" \in keys
              THEN UNION { Refs(schema.properties[i].schema) :
                             i \in 1..Len(schema.properties) }
              ELSE {})

IsObjectSchema(schema) ==
    /\ "properties" \in DOMAIN schema
    /\ schema.type = "object"

\* An object schema below the top of a schema, or at it.
RECURSIVE HoldsObject(_)
HoldsObject(schema) ==
    LET keys == DOMAIN schema
    IN  \/ "properties" \in keys
        \/ "items" \in keys /\ HoldsObject(schema.items)
        \/ /\ "oneOf" \in keys
           /\ \E i \in 1..Len(schema.oneOf) : HoldsObject(schema.oneOf[i])

\* The object shapes a type holds, intersections merged.
RECURSIVE ObjectNodes(_)
ObjectNodes(type) ==
    CASE type.kind = "object" ->
           { type } \cup UNION { ObjectNodes(type.properties[i].type) :
                                   i \in 1..Len(type.properties) }
      [] type.kind = "intersection" -> ObjectNodes(Merge(type))
      [] type.kind = "array" -> ObjectNodes(type.element)
      [] type.kind = "union" ->
           UNION { ObjectNodes(type.alternatives[i]) :
                     i \in 1..Len(type.alternatives) }
      [] OTHER -> {}

RequestedObjects ==
    UNION { ObjectNodes(call.types[i]) : i \in 1..Len(call.types) }

RECURSIVE NonOptional(_)
NonOptional(properties) ==
    IF properties = << >> THEN << >>
    ELSE IF Head(properties).required
         THEN << Head(properties).name >> \o NonOptional(Tail(properties))
         ELSE NonOptional(Tail(properties))

PropertyKeys(schema) ==
    [ i \in 1..Len(schema.properties) |-> schema.properties[i].key ]

----------------------------------------------------------------------------
(* Properties of two interleaved validations.                              *)

\* What a validation running alone holds after the given calls.
RECURSIVE Alone(_)
Alone(calls) ==
    IF calls = << >> THEN EmptyValidation
    ELSE LET c == calls[Len(calls)]
         IN  validate_predicate(Alone(SubSeq(calls, 1, Len(calls) - 1)),
                                c.matched, c.exceptionable, c.error).res

\* C11: under every interleaving, each accumulator holds what its own
\* validation produces alone after the calls it has made so far, and so at
\* the end; a call on one accumulator leaves the other as it was.
C11_InterleavedAsAlone ==
    \A v \in DOMAIN resOf :
        resOf[v] = Alone(SubSeq(plan[v], 1, made[v]))

\* Validation 2 has just recorded its second error while validation 1, one
\* error recorded, still has a call to make; the two hold different errors.
C11_Witness ==
    /\ call.op = "validate.predicate"
    /\ call.validation = 2
    /\ made = << 1, 2 >>
    /\ Len(plan[1]) = 2
    /\ Len(resOf[1].errors) = 1
    /\ Len(resOf[2].errors) = 2
    /\ resOf[1].errors[1] # resOf[2].errors[1]

====
